---- MODULE Spec2Model ----
\* Model of app.py (log-data-prototype): the /upload request handler, the
\* retry loop of get_regex_from_gemini and the schema normalisation.
\*
\* Text is a sequence of one-character strings, a DataFrame is a record
\* [columns, rows] whose rows are functions from column name to cell, a cell is
\* a text, and a missing cell (None / NaN) is the text NaN below.
EXTENDS Integers, Sequences, FiniteSets, TLC

\* ------------------------------------------------------------------ bounds
MaxLen == 2        \* longest short file body, in characters
MaxRows == 2       \* most records of a JSON / XML / CSV document

\* ------------------------------------------------------- program constants
retries == 3
SampleLines == 10
PreviewRows == 100
InitialBackoff == 2

GENERIC_SCHEMA ==
    <<"timestamp", "log_level", "message", "service_name",
      "host_name", "trace_id", "error_details", "metadata">>

ALLOWED_EXTENSIONS ==
    { <<"t","x","t">>, <<"l","o","g">>, <<"j","s","o","n">>,
      <<"x","m","l">>, <<"c","s","v">> }

RetryableStatuses == {503, 429}

\* ------------------------------------------------------------ text helpers
NaN == <<"NaN">>
Range(s) == { s[k] : k \in 1..Len(s) }

Lower(ch) ==
    CASE ch = "C" -> "c" [] ch = "S" -> "s" [] ch = "V" -> "v"
      [] ch = "L" -> "l" [] ch = "T" -> "t" [] ch = "X" -> "x"
      [] OTHER -> ch

lower(s) == [k \in 1..Len(s) |-> Lower(s[k])]

IsSpace(ch) == ch \in {" ", "\n"}

RECURSIVE lstrip(_)
lstrip(s) == IF s # <<>> /\ IsSpace(Head(s)) THEN lstrip(Tail(s)) ELSE s

RECURSIVE rstrip(_)
rstrip(s) ==
    IF s # <<>> /\ IsSpace(s[Len(s)]) THEN rstrip(SubSeq(s, 1, Len(s) - 1)) ELSE s

strip(s) == rstrip(lstrip(s))

\* str.splitlines(): a line ends at each "\n"; a final "\n" opens no new line.
RECURSIVE splitlines(_)
splitlines(s) ==
    IF s = <<>> THEN <<>>
    ELSE LET nl == { k \in 1..Len(s) : s[k] = "\n" } IN
         IF nl = {} THEN <<s>>
         ELSE LET k == CHOOSE m \in nl : \A n \in nl : m <= n IN
              <<SubSeq(s, 1, k - 1)>> \o splitlines(SubSeq(s, k + 1, Len(s)))

\* "\n".join(lines)
RECURSIVE join(_)
join(ls) ==
    IF ls = <<>> THEN <<>>
    ELSE IF Len(ls) = 1 THEN ls[1]
    ELSE ls[1] \o <<"\n">> \o join(Tail(ls))

head(s, n) == SubSeq(s, 1, IF Len(s) < n THEN Len(s) ELSE n)

\* filename.rsplit('.', 1): <<name>> without a dot, else <<before, after>> of
\* the last dot.
rsplit(s) ==
    LET dots == { k \in 1..Len(s) : s[k] = "." } IN
    IF dots = {} THEN <<s>>
    ELSE LET k == CHOOSE m \in dots : \A n \in dots : n <= m IN
         <<SubSeq(s, 1, k - 1), SubSeq(s, k + 1, Len(s))>>

\* werkzeug's secure_filename on names made of letters and dots: leading and
\* trailing dots are stripped.
RECURSIVE secure_filename(_)
secure_filename(s) ==
    IF s # <<>> /\ Head(s) = "." THEN secure_filename(Tail(s))
    ELSE IF s # <<>> /\ s[Len(s)] = "." THEN secure_filename(SubSeq(s, 1, Len(s) - 1))
    ELSE s

allowed_file_nolower(filename) ==
    /\ "." \in Range(filename)
    /\ rsplit(filename)[2] \in ALLOWED_EXTENSIONS

allowed_file(filename) ==
    /\ "." \in Range(filename)
    /\ lower(rsplit(filename)[2]) \in ALLOWED_EXTENSIONS

\* ------------------------------------------------------------- DataFrames
\* A raw record is an ordered dict: a sequence of <<key, value>> pairs with
\* distinct keys.
Keys(rec) == { rec[k][1] : k \in 1..Len(rec) }
Get(rec, key) ==
    IF key \in Keys(rec)
    THEN LET k == CHOOSE m \in 1..Len(rec) : rec[m][1] = key IN rec[k][2]
    ELSE NaN

RECURSIVE UnionColumns(_, _)
UnionColumns(records, acc) ==
    IF records = <<>> THEN acc
    ELSE LET rec == Head(records)
             fresh == SelectSeq([k \in 1..Len(rec) |-> rec[k][1]],
                                LAMBDA c : c \notin Range(acc))
         IN UnionColumns(Tail(records), acc \o fresh)

\* pd.DataFrame(list of dicts): the columns are the keys in order of first
\* appearance, a key a record lacks is NaN in its row.
DataFrame(records) ==
    LET cols == UnionColumns(records, <<>>) IN
    [columns |-> cols,
     rows |-> [k \in 1..Len(records) |-> [c \in Range(cols) |-> Get(records[k], c)]]]

df_empty_never(df) == FALSE

\* df.empty
df_empty(df) == Len(df.columns) = 0 \/ Len(df.rows) = 0

\* Series.to_json() of the row restricted to cols: a compact JSON object with
\* one member per column of cols, null for a missing cell.
RECURSIVE to_json_members(_, _)
to_json_members(row, cols) ==
    IF cols = <<>> THEN <<>>
    ELSE <<"\"", Head(cols), "\"", ":">>
         \o (IF row[Head(cols)] = NaN THEN <<"null">>
             ELSE <<"\"">> \o row[Head(cols)] \o <<"\"">>)
         \o (IF Len(cols) > 1 THEN <<",">> ELSE <<>>)
         \o to_json_members(row, Tail(cols))

to_json(row, cols) == <<"{">> \o to_json_members(row, cols) \o <<"}">>

metadata_cols_unprotected(df) ==
    SelectSeq(df.columns,
              LAMBDA col : col \notin (Range(GENERIC_SCHEMA) \ {"metadata"}))

metadata_cols(df) == SelectSeq(df.columns, LAMBDA col : col \notin Range(GENERIC_SCHEMA))

\* df['metadata'] = df[metadata_cols].apply(to_json, axis=1);
\* df = df.drop(columns=metadata_cols)
fold_metadata(df) ==
    LET mc == metadata_cols(df)
        kept == SelectSeq(df.columns, LAMBDA col : col \notin Range(mc))
        cols == IF "metadata" \in Range(kept) THEN kept ELSE Append(kept, "metadata")
    IN IF mc = <<>> THEN df
       ELSE [columns |-> cols,
             rows |-> [k \in 1..Len(df.rows) |->
                         [c \in Range(cols) |->
                            IF c = "metadata" THEN to_json(df.rows[k], mc)
                            ELSE df.rows[k][c]]]]

reindex_keep(df, columns) == df

\* df.reindex(columns=...)
reindex(df, columns) ==
    [columns |-> columns,
     rows |-> [k \in 1..Len(df.rows) |->
                 [c \in Range(columns) |->
                    IF c \in Range(df.columns) THEN df.rows[k][c] ELSE NaN]]]

\* lines 193-201: the Schema Normalizer
normalize(df) == reindex(fold_metadata(df), GENERIC_SCHEMA)

fillna(cell) == IF cell = NaN THEN <<>> ELSE cell

\* df.head(100).fillna('').values.tolist()
preview_rows(df) ==
    LET h == head(df.rows, PreviewRows) IN
    [k \in 1..Len(h) |-> [j \in 1..Len(df.columns) |-> fillna(h[k][df.columns[j]])]]

\* df.to_csv(index=False): the header line, then one line per row, a missing
\* cell written as the empty field.
to_csv(df) ==
    <<df.columns>> \o
    [k \in 1..Len(df.rows) |->
        [j \in 1..Len(df.columns) |-> fillna(df.rows[k][df.columns[j]])]]

NoDf == [columns |-> <<>>, rows |-> <<>>]

\* ------------------------------------------------------------------ inputs
Chars == {"a", "b", " ", "\n"}

ShortContents == UNION { [1..n -> Chars] : n \in 0..MaxLen }

\* SampleLines lines that fill the sample, so that what follows lies past it
Pad == [k \in 1..(2 * SampleLines) |-> IF k % 2 = 1 THEN "b" ELSE "\n"]

Contents == ShortContents \cup { Pad \o c : c \in ShortContents }

Filenames ==
    { <<>>,
      <<"d">>,
      <<"d", ".", "e", "x", "e">>,
      <<"d", ".", "t", "x", "t">>,
      <<"d", ".", "L", "o", "g">>,
      <<"d", ".", "c", "s", "v">>,
      <<"d", ".", "C", "S", "V">>,
      <<"d", ".", "x", "m", "l">>,
      <<"d", ".", "j", "s", "o", "n">>,
      <<"d", ".", "t", "x", "t", ".">>,
      <<".", "t", "x", "t">> }

RawRecords ==
    { <<>>,
      << <<"message", <<"a">>>> >>,
      << <<"user_id", <<"a">>>> >>,
      << <<"pid", <<"b">>>> >>,
      << <<"metadata", <<"b">>>>, <<"user_id", <<"a">>>> >>,
      << <<"metadata", <<"b">>>> >>,
      << <<"user_id", NaN>>, <<"message", <<"b">>>> >> }

\* What the structural parser makes of the file: it raises, or it yields the
\* records of the document.
Malformed == [ok |-> FALSE, records |-> <<>>]

Docs ==
    {Malformed} \cup
    { [ok |-> TRUE, records |-> r] : r \in UNION { [1..n -> RawRecords] : n \in 0..MaxRows } }

\* The rows read_csv yields all have the fields of the one header line.
SameHeader(records) ==
    \A j, k \in 1..Len(records) :
        [m \in 1..Len(records[j]) |-> records[j][m][1]]
            = [m \in 1..Len(records[k]) |-> records[k][m][1]]

IsCsvName(f) == "." \in Range(f) /\ lower(rsplit(f)[2]) = <<"c", "s", "v">>

Uploads ==
    { [has_file |-> FALSE, filename |-> <<>>, content |-> <<>>, doc |-> Malformed] }
    \cup { [has_file |-> TRUE, filename |-> f, content |-> c, doc |-> Malformed] :
             f \in Filenames, c \in Contents }
    \cup { u \in { [has_file |-> TRUE, filename |-> f, content |-> <<"a">>, doc |-> d] :
                      f \in Filenames, d \in Docs } :
             IsCsvName(u.filename) => SameHeader(u.doc.records) }

NoUpload == [has_file |-> FALSE, filename |-> <<>>, content |-> <<>>, doc |-> Malformed]

\* A regex the service may answer with: whether re.compile accepts it, the
\* first characters of the texts it matches, whether it matches the empty
\* text, and its named groups in order.
NoPat == [valid |-> FALSE, first |-> {}, empty |-> FALSE, groups |-> <<>>]

Patterns ==
    { [valid |-> TRUE, first |-> {"a"}, empty |-> FALSE, groups |-> <<"message">>],
      [valid |-> TRUE, first |-> {"a"}, empty |-> FALSE, groups |-> <<"timestamp", "user_id">>],
      [valid |-> TRUE, first |-> {"a", "b"}, empty |-> TRUE,
       groups |-> <<"message", "metadata", "pid">>],
      [valid |-> TRUE, first |-> {}, empty |-> FALSE, groups |-> <<"message">>],
      [valid |-> TRUE, first |-> {"a", "b"}, empty |-> TRUE, groups |-> <<>>],
      [valid |-> FALSE, first |-> {"a"}, empty |-> FALSE, groups |-> <<"message">>] }

\* candidates[0].content.parts[0].text of the service's answer
NoText == [kind |-> "missing", fence |-> FALSE, pat |-> NoPat]

Texts ==
    { NoText, [kind |-> "empty", fence |-> FALSE, pat |-> NoPat] }
    \cup { [kind |-> "regex", fence |-> FALSE, pat |-> p] : p \in Patterns }
    \cup { [kind |-> "regex", fence |-> TRUE, pat |-> p] :
             p \in { q \in Patterns : q.groups = <<"message">> /\ q.first = {"a"} /\ q.valid } }

\* What one POST to the service comes back with
Outcomes ==
    { [kind |-> "ok", status |-> 200, text |-> t] : t \in Texts }
    \cup { [kind |-> "http", status |-> s, text |-> NoText] : s \in {503, 429, 500} }
    \cup { [kind |-> "neterr", status |-> 0, text |-> NoText] }

\* ------------------------------------------------------------ line matching
\* pattern.match(text)
Match(p, text) == IF text = <<>> THEN p.empty ELSE Head(text) \in p.first

\* match.groupdict(): every named group, in order, with the text it captured
groupdict(p, text) == [k \in 1..Len(p.groups) |-> <<p.groups[k], text>>]

extract_sample_only(p, lines) ==
    LET ls == head(lines, SampleLines)
        hit == SelectSeq(ls, LAMBDA line : Match(p, strip(line)))
    IN [k \in 1..Len(hit) |-> groupdict(p, strip(hit[k]))]

\* line 169: [match.groupdict() for line in lines if pattern.match(line.strip())]
extract(p, lines) ==
    LET hit == SelectSeq(lines, LAMBDA line : Match(p, strip(line)))
    IN [k \in 1..Len(hit) |-> groupdict(p, strip(hit[k]))]

raw_lines_stripped(lines) == [k \in 1..Len(lines) |-> << <<"message", strip(lines[k])>> >>]

\* line 175: [{'message': line} for line in lines]
raw_lines(lines) == [k \in 1..Len(lines) |-> << <<"message", lines[k]>> >>]

\* lines 160-162: a fenced answer loses its fence
strip_fence(text) == text.pat

\* ------------------------------------------------------------------- state
VARIABLES
    pc,              \* "idle": no request; "gemini": inside the retry loop; "done"
    GEMINI_API_KEY,  \* whether key.yaml holds the key
    upload,          \* the request being handled
    saved,           \* file.save(upload_path) has run
    branch,          \* the parser branch taken: "none", "text", "json", "xml", "csv"
    i,               \* loop variable of get_regex_from_gemini
    backoff_factor,
    sent,            \* POSTs made by this call
    sleeps,          \* the time.sleep arguments of this call, in order
    outcomes,        \* what each POST came back with, in order
    pattern,         \* the compiled pattern, once re.compile has returned
    parsed_data,     \* the list built at line 169
    raw,             \* df as it reaches line 189
    flashes,         \* flash() messages of this request, in order
    response,        \* "none", "redirect" (to index) or "results"
    result           \* the arguments of render_template('results.html', ...)

vars == <<pc, GEMINI_API_KEY, upload, saved, branch, i, backoff_factor, sent,
          sleeps, outcomes, pattern, parsed_data, raw, flashes, response, result>>

call_vars == <<i, backoff_factor, sent, sleeps, outcomes>>

NoResult == [csv_filename |-> <<>>, headers |-> <<>>, rows |-> <<>>, full_csv_data |-> <<>>]
NotCompiled == [compiled |-> FALSE, pat |-> NoPat]

Init ==
    /\ pc = "idle"
    /\ GEMINI_API_KEY \in BOOLEAN
    /\ upload = NoUpload
    /\ saved = FALSE
    /\ branch = "none"
    /\ i = 0
    /\ backoff_factor = InitialBackoff
    /\ sent = 0
    /\ sleeps = <<>>
    /\ outcomes = <<>>
    /\ pattern = NotCompiled
    /\ parsed_data = <<>>
    /\ raw = NoDf
    /\ flashes = <<>>
    /\ response = "none"
    /\ result = NoResult

\* flash(msg); return redirect(url_for('index'))
Redirect(msgs) ==
    /\ pc' = "done"
    /\ flashes' = msgs
    /\ response' = "redirect"
    /\ result' = NoResult

\* lines 216-219: the except clause of upload_file
Except(msgs) == Redirect(Append(msgs, "An error occurred"))

\* lines 189-214, with df the table the parser branch produced
Finish(filename, df, msgs) ==
    /\ raw' = df
    /\ IF df_empty(df)
       THEN Redirect(Append(msgs, "Parsing failed. The application could not structure the data."))
       ELSE LET out == normalize(df) IN
            /\ pc' = "done"
            /\ flashes' = msgs
            /\ response' = "results"
            /\ result' = [csv_filename |-> rsplit(filename)[1] \o <<"_processed.csv">>,
                          headers |-> out.columns,
                          rows |-> preview_rows(out),
                          full_csv_data |-> to_csv(out)]

ExtOf(filename) == lower(rsplit(filename)[2])

BranchOf(ext) ==
    CASE ext \in {<<"l","o","g">>, <<"t","x","t">>} -> "text"
      [] ext = <<"j","s","o","n">> -> "json"
      [] ext = <<"x","m","l">> -> "xml"
      [] ext = <<"c","s","v">> -> "csv"
      [] OTHER -> "none"

\* POST /upload, up to the call of get_regex_from_gemini on the txt/log branch
\* and to the response on every other path.
upload_file(u) ==
    /\ pc = "idle"
    /\ upload' = u
    /\ UNCHANGED <<GEMINI_API_KEY, sent, sleeps, outcomes, i, backoff_factor,
                   pattern, parsed_data>>
    /\ IF ~u.has_file
       THEN Redirect(<<"No file part">>) /\ UNCHANGED <<saved, branch, raw>>
       ELSE IF u.filename = <<>>
       THEN Redirect(<<"No selected file">>) /\ UNCHANGED <<saved, branch, raw>>
       ELSE IF ~allowed_file(u.filename)
       THEN Redirect(<<"File type not allowed.">>) /\ UNCHANGED <<saved, branch, raw>>
       ELSE LET filename == secure_filename(u.filename) IN
            /\ saved' = TRUE
            /\ IF u.content = <<>>
               THEN Redirect(<<"The uploaded file appears to be empty.">>)
                    /\ UNCHANGED <<branch, raw>>
               ELSE IF Len(rsplit(filename)) < 2
               THEN Except(<<>>) /\ UNCHANGED <<branch, raw>>
               ELSE LET ext == ExtOf(filename) IN
                    /\ branch' = BranchOf(ext)
                    /\ IF BranchOf(ext) = "text"
                       THEN LET log_sample == join(head(splitlines(u.content), SampleLines)) IN
                            IF log_sample = <<>>
                            THEN Redirect(<<"File is empty.">>) /\ UNCHANGED raw
                            ELSE IF ~GEMINI_API_KEY
                            THEN Except(<<>>) /\ UNCHANGED raw
                            ELSE /\ pc' = "gemini"
                                 /\ UNCHANGED <<raw, flashes, response, result>>
                       ELSE IF BranchOf(ext) = "none"
                       THEN Finish(filename, NoDf, <<>>)
                       ELSE IF ~u.doc.ok
                       THEN Except(<<>>) /\ UNCHANGED raw
                       ELSE Finish(filename, DataFrame(u.doc.records), <<>>)

\* lines 155-176 and on: upload_file resumes with the service's answer
AfterGemini(text) ==
    LET filename == secure_filename(upload.filename)
        lines == splitlines(upload.content)
    IN IF text.kind # "regex"
       THEN Except(<<>>) /\ UNCHANGED <<pattern, parsed_data, raw>>
       ELSE LET regex_pattern == strip_fence(text) IN
            IF ~regex_pattern.valid
            THEN Except(<<>>) /\ UNCHANGED <<pattern, parsed_data, raw>>
            ELSE LET data == extract(regex_pattern, lines)
                     df == DataFrame(data)
                 IN /\ pattern' = [compiled |-> TRUE, pat |-> regex_pattern]
                    /\ parsed_data' = data
                    /\ IF df_empty(df)
                       THEN Finish(filename, DataFrame(raw_lines(lines)),
                                   <<"AI parsing could not find a pattern. Displaying raw lines instead.">>)
                       ELSE Finish(filename, df, <<>>)

retryable_any_http(o) == o.kind = "http"

\* line 102: e.response is not None and e.response.status_code in [503, 429]
retryable(o) == o.kind = "http" /\ o.status \in RetryableStatuses

\* One turn of the loop of get_regex_from_gemini (lines 96-107): the POST, and
\* what its outcome o leads to; the last turn runs the rest of upload_file.
get_regex_from_gemini(o) ==
    /\ pc = "gemini"
    /\ i < retries
    /\ sent' = sent + 1
    /\ outcomes' = Append(outcomes, o)
    /\ UNCHANGED <<GEMINI_API_KEY, upload, saved, branch>>
    /\ IF o.kind = "ok"
       THEN AfterGemini(o.text) /\ UNCHANGED <<i, backoff_factor, sleeps>>
       ELSE IF retryable(o) /\ i < retries - 1
       THEN /\ sleeps' = Append(sleeps, backoff_factor)
            /\ backoff_factor' = backoff_factor * 2
            /\ i' = i + 1
            /\ UNCHANGED <<pc, pattern, parsed_data, raw, flashes, response, result>>
       ELSE /\ Except(<<>>)
            /\ UNCHANGED <<i, backoff_factor, sleeps, pattern, parsed_data, raw>>

\* GET /: the upload page again, ready for the next request
index ==
    /\ pc = "done"
    /\ pc' = "idle"
    /\ upload' = NoUpload
    /\ saved' = FALSE
    /\ branch' = "none"
    /\ i' = 0
    /\ backoff_factor' = InitialBackoff
    /\ sent' = 0
    /\ sleeps' = <<>>
    /\ outcomes' = <<>>
    /\ pattern' = NotCompiled
    /\ parsed_data' = <<>>
    /\ raw' = NoDf
    /\ flashes' = <<>>
    /\ response' = "none"
    /\ result' = NoResult
    /\ UNCHANGED GEMINI_API_KEY

Next ==
    \/ \E u \in Uploads : upload_file(u)
    \/ \E o \in Outcomes : get_regex_from_gemini(o)
    \/ index

Spec == Init /\ [][Next]_vars

\* ------------------------------------------------------------- properties
Lines == splitlines(upload.content)
Structured == {"json", "xml", "csv"}
Unrecognized(cols) == { c \in cols : c \notin Range(GENERIC_SCHEMA) }
Warning == "AI parsing could not find a pattern. Displaying raw lines instead."

\* the lines the compiled pattern matches, by position, and the rank of a
\* position among them
Hits == { k \in 1..Len(Lines) : Match(pattern.pat, strip(Lines[k])) }
Rank(k) == Cardinality({ j \in Hits : j <= k })

\* the member names of a serialized mapping
JsonKeys(js) ==
    { js[k] : k \in { m \in 2..(Len(js) - 2) :
                        js[m - 1] = "\"" /\ js[m + 1] = "\"" /\ js[m + 2] = ":" } }

\* C1: every success result has exactly the columns of GENERIC_SCHEMA, in
\* that order, as preview headers and as header of the encoded CSV; each row
\* has one cell per canonical column, and the cell of a canonical column the
\* parsed table lacked is empty.
C1_CanonicalColumns ==
    response = "results" =>
        /\ result.headers = GENERIC_SCHEMA
        /\ result.full_csv_data[1] = GENERIC_SCHEMA
        /\ Len(result.rows) = Len(raw.rows)
        /\ \A k \in 1..Len(result.rows) :
            /\ Len(result.rows[k]) = Len(GENERIC_SCHEMA)
            /\ Len(result.full_csv_data[k + 1]) = Len(GENERIC_SCHEMA)
            /\ \A j \in 1..Len(GENERIC_SCHEMA) :
                 ( /\ GENERIC_SCHEMA[j] \notin Range(raw.columns)
                   /\ ~(GENERIC_SCHEMA[j] = "metadata" /\ Unrecognized(Range(raw.columns)) # {}) )
                 => result.rows[k][j] = <<>>

C1_Witness ==
    /\ response = "results"
    /\ branch = "xml"
    /\ Unrecognized(Range(raw.columns)) # {}
    /\ "message" \in Range(raw.columns)
    /\ "timestamp" \notin Range(raw.columns)

\* C2: when pattern inference fails for a txt/log upload with a non-blank
\* line, the upload still ends in the success result, with one record holding
\* a message field per non-blank line.
InferenceFailed ==
    /\ sent > 0
    /\ \/ outcomes[sent].kind # "ok"
       \/ outcomes[sent].text.kind # "regex"

NonBlank == { k \in 1..Len(Lines) : strip(Lines[k]) # <<>> }

C2_FallbackOnInferenceFailure ==
    (pc = "done" /\ branch = "text" /\ InferenceFailed /\ NonBlank # {}) =>
        /\ response = "results"
        /\ "message" \in Range(raw.columns)
        /\ Len(raw.rows) >= Cardinality(NonBlank)

\* C3: a compiled pattern that matches no line of the file leads to the
\* raw-line table, one record per line in file order with the single field
\* message holding the line as it stands, to the warning, and to the success
\* result.
C3_ZeroMatchFallback ==
    (pc = "done" /\ pattern.compiled /\ Hits = {}) =>
        /\ raw.columns = <<"message">>
        /\ Len(raw.rows) = Len(Lines)
        /\ \A k \in 1..Len(Lines) : raw.rows[k]["message"] = Lines[k]
        /\ flashes = <<Warning>>
        /\ response = "results"

C3_Witness ==
    /\ pc = "done"
    /\ pattern.compiled
    /\ Hits = {}
    /\ Len(Lines) >= 2
    /\ \E k \in 1..Len(Lines) : strip(Lines[k]) # Lines[k]
    /\ response = "results"

\* C4: a call sends at most 3 requests; every request after the first follows
\* an attempt that failed with 503 or 429 and a sleep, the sleeps being 2 then
\* 4 and none after the last attempt; any other HTTP error ends the call with
\* the error at once; the first success ends the call with its answer.
C4_RetryOnlyOn503And429 ==
    /\ sent <= retries
    /\ Len(outcomes) = sent
    /\ \A k \in 2..sent : outcomes[k - 1].kind = "http" /\ outcomes[k - 1].status \in {503, 429}
    /\ \A k \in 1..Len(sleeps) : sleeps[k] = 2 ^ k
    /\ pc = "gemini" => Len(sleeps) = sent
    /\ (pc = "done" /\ sent > 0) =>
        /\ Len(sleeps) = sent - 1
        /\ (outcomes[sent].kind = "http" /\ outcomes[sent].status \notin {503, 429}) =>
              (response = "redirect" /\ flashes = <<"An error occurred">>)
        /\ (outcomes[sent].kind = "http" /\ outcomes[sent].status \in {503, 429}) =>
              (sent = retries /\ response = "redirect" /\ flashes = <<"An error occurred">>)
        /\ (outcomes[sent].kind = "ok" /\ outcomes[sent].text.kind = "regex"
              /\ outcomes[sent].text.pat.valid) =>
              pattern = [compiled |-> TRUE, pat |-> outcomes[sent].text.pat]

C4_Witness ==
    /\ pc = "done"
    /\ sent = 3
    /\ sleeps = <<2, 4>>
    /\ outcomes[1].status = 503
    /\ outcomes[2].status = 429
    /\ outcomes[3].kind = "ok"
    /\ pattern.compiled

\* C5: an attempt that fails without an HTTP response is retried while fewer
\* than 3 attempts have been made, so a call that ends on such a failure has
\* made 3 attempts.
C5_NetworkFailureRetried ==
    (pc = "done" /\ sent > 0 /\ outcomes[sent].kind = "neterr") => sent = retries

\* C6: no file part, an empty filename or an extension outside the allowed
\* set (compared without regard to case) ends in a message and a redirect
\* with nothing saved, no parser branch taken and no request sent; an
\* extension that is allowed up to case is accepted and takes the branch of
\* its lower-case form.
AllowedUpToCase(f) ==
    /\ "." \in Range(f)
    /\ \E e \in ALLOWED_EXTENSIONS : lower(rsplit(f)[2]) = e

C6_ExtensionGate ==
    pc # "idle" =>
        /\ (~upload.has_file \/ upload.filename = <<>> \/ ~AllowedUpToCase(upload.filename)) =>
              /\ pc = "done"
              /\ response = "redirect"
              /\ Len(flashes) = 1
              /\ ~saved
              /\ branch = "none"
              /\ sent = 0
              /\ raw = NoDf
              /\ result = NoResult
        /\ (upload.has_file /\ upload.filename # <<>> /\ AllowedUpToCase(upload.filename)) =>
              /\ saved
              /\ (upload.content # <<>> /\ "." \in Range(secure_filename(upload.filename))) =>
                    branch = BranchOf(lower(rsplit(upload.filename)[2]))

C6_Witness ==
    /\ pc = "done"
    /\ upload.has_file
    /\ upload.filename = <<"d", ".", "e", "x", "e">>
    /\ upload.content # <<>>
    /\ flashes = <<"File type not allowed.">>
    /\ ~saved

C6_WitnessMixedCase ==
    /\ pc = "done"
    /\ upload.filename = <<"d", ".", "C", "S", "V">>
    /\ branch = "csv"
    /\ response = "results"

\* C7: the metadata of a record that carries unrecognized fields is a
\* serialized mapping whose keys are exactly the unrecognized field names of
\* that record.
C7_MetadataOwnFieldsOnly ==
    (response = "results" /\ branch \in Structured) =>
        \A k \in 1..Len(upload.doc.records) :
            LET own == Unrecognized(Keys(upload.doc.records[k])) IN
            own # {} => JsonKeys(result.rows[k][Len(GENERIC_SCHEMA)]) = own

\* C8: a JSON, XML or CSV upload whose parser raises, or whose table has no
\* rows, ends in a message and a redirect to the entry point, with no
\* headers, preview rows, encoded CSV or output filename.
C8_FailClosed ==
    (pc = "done" /\ branch \in Structured /\ (~upload.doc.ok \/ Len(upload.doc.records) = 0)) =>
        /\ response = "redirect"
        /\ Len(flashes) = 1
        /\ result = NoResult

C8_Witness ==
    /\ pc = "done"
    /\ branch = "xml"
    /\ upload.doc.ok
    /\ upload.doc.records = <<>>
    /\ flashes = <<"Parsing failed. The application could not structure the data.">>

C8_WitnessRaise ==
    /\ pc = "done"
    /\ branch = "json"
    /\ ~upload.doc.ok
    /\ flashes = <<"An error occurred">>

\* C9: normalizing the normalized table again changes nothing: no column is
\* folded, the metadata cells stay as they are and the encoded output is the
\* same.
C9_NormalizeIdempotent ==
    response = "results" =>
        LET out == normalize(raw) IN
        /\ metadata_cols(out) = <<>>
        /\ normalize(out) = out
        /\ to_csv(normalize(out)) = result.full_csv_data

C9_Witness ==
    /\ response = "results"
    /\ Unrecognized(Range(raw.columns)) # {}
    /\ "metadata" \in Range(raw.columns)
    /\ \E k \in 1..Len(result.rows) : Len(result.rows[k][Len(GENERIC_SCHEMA)]) > 2

\* C10: with a compiled pattern, the list built from the file holds one
\* record per matching line of the whole file, in file order, made of the
\* groups of that line, and nothing else; when that list makes a non-empty
\* table it is the table that is normalized, and the upload succeeds.
C10_PatternAppliedToEveryLine ==
    (pc = "done" /\ pattern.compiled) =>
        /\ Len(parsed_data) = Cardinality(Hits)
        /\ \A k \in Hits :
             /\ Len(parsed_data[Rank(k)]) = Len(pattern.pat.groups)
             /\ \A g \in 1..Len(pattern.pat.groups) :
                  parsed_data[Rank(k)][g] = <<pattern.pat.groups[g], strip(Lines[k])>>
        /\ (Hits # {} /\ pattern.pat.groups # <<>>) =>
             /\ response = "results"
             /\ flashes = <<>>
             /\ raw.columns = pattern.pat.groups
             /\ Len(raw.rows) = Cardinality(Hits)
             /\ \A k \in Hits : \A c \in Range(raw.columns) :
                  raw.rows[Rank(k)][c] = strip(Lines[k])

C10_Witness ==
    /\ pc = "done"
    /\ pattern.compiled
    /\ Len(Lines) > SampleLines
    /\ \E k \in Hits : k > SampleLines
    /\ \E k \in 1..Len(Lines) : k \notin Hits
    /\ response = "results"
    /\ flashes = <<>>
====
